---- MODULE Spec2Model ----
\* The marine-data dashboard: the CSV loader (src/script.js, loadDataset), the
\* page set-up, year sliders and metadata loader of the API variant
\* (src/unnamed/part_001), and the range filter the page calls (applyFilters).
\*
\* Strings whose content the code inspects (Entity, Year and indicator cells of
\* a CSV row) are sequences of one-character strings, so that trim, parseInt and
\* parseFloat are computed, not assumed.  A cell of a parsed row is a set: {}
\* when the row has no such column (undefined), {s} when it holds the text s.
EXTENDS Integers, Sequences, FiniteSets, TLC

VARIABLES
    domReady,        \* DOMContentLoaded has run
    data,            \* datasetsConfig[key].data
    filteredData,    \* datasetsConfig[key].filteredData
    results,         \* history: results.data of the last parse for the key
    stored,          \* history: some load has assigned datasetsConfig[key].data
    loader,          \* the <key>-loader element: innerHTML kind, style.display
    citation,        \* the <key>-citation element's text
    description,     \* the .dataset-description element of each section
    applyDisabled,   \* disabled attribute of the key's apply button
    tasks,           \* the calls of loadDataset made so far, in call order
    dataTasks,       \* the call of loadDatasetData made for each key
    minYearSlider,   \* value of the <key>-minYear range input
    maxYearSlider,   \* value of the <key>-maxYear range input
    minYearDisplay,  \* text of <key>-minYearDisplay
    maxYearDisplay,  \* text of <key>-maxYearDisplay
    applied          \* history: applyFilters has run for the key

vars == <<domReady, data, filteredData, results, stored, loader, citation,
          description, applyDisabled, tasks, dataTasks, minYearSlider,
          maxYearSlider, minYearDisplay, maxYearDisplay, applied>>

\* ------------------------------------------------------------------ bounds
\* Calls of loadDataset in one behaviour.
MaxLoads == 2
\* Records in a data set handed to the range filter on its own.
MaxRows == 2

\* ------------------------------------------------------- page and config
\* The .dataset-section elements, in document order; their ids are the keys.
Sections == <<"d1", "d2">>
Keys == {Sections[i] : i \in DOMAIN Sections}

\* Year bounds of a dataset's static configuration (config.minYear/maxYear).
minYear == 2000
maxYear == 2024

\* Range and defaults the page gives the year sliders.
SliderMin == 2000
SliderMax == 2024

\* 'Desconhecido', the Entity placeholder.
Sentinel == <<"D","e","s","c","o","n","h","e","c","i","d","o">>

\* ------------------------------------------------------------ text helpers
IsSpace(c) == c \in {" ", "\t"}

Digits == <<"0","1","2","3","4","5","6","7","8","9">>
IsDigit(c) == \E i \in DOMAIN Digits : Digits[i] = c
DigitVal(c) == (CHOOSE i \in DOMAIN Digits : Digits[i] = c) - 1

RECURSIVE TrimLeft(_)
TrimLeft(s) ==
    IF s # <<>> /\ IsSpace(Head(s)) THEN TrimLeft(Tail(s)) ELSE s

RECURSIVE TrimRight(_)
TrimRight(s) ==
    IF s # <<>> /\ IsSpace(s[Len(s)])
    THEN TrimRight(SubSeq(s, 1, Len(s) - 1))
    ELSE s

\* String.prototype.trim
Trim(s) == TrimRight(TrimLeft(s))

\* The longest prefix of s made of decimal digits.
RECURSIVE DigitsPrefix(_)
DigitsPrefix(s) ==
    IF s # <<>> /\ IsDigit(Head(s))
    THEN <<Head(s)>> \o DigitsPrefix(Tail(s))
    ELSE <<>>

RECURSIVE ToNat(_)
ToNat(ds) ==
    IF ds = <<>> THEN 0
    ELSE ToNat(SubSeq(ds, 1, Len(ds) - 1)) * 10 + DigitVal(ds[Len(ds)])

RECURSIVE Pow10(_)
Pow10(n) == IF n = 0 THEN 1 ELSE 10 * Pow10(n - 1)

HasSign(s) == s # <<>> /\ Head(s) \in {"-", "+"}
Unsigned(s) == IF HasSign(s) THEN Tail(s) ELSE s
SignOf(s) == IF s # <<>> /\ Head(s) = "-" THEN -1 ELSE 1

\* parseInt(text): {} is NaN, {n} the integer n.  Leading white space and a
\* sign are skipped, the digits that follow are read, the rest is ignored.
ParseInt(s) ==
    LET t  == TrimLeft(s)
        ds == DigitsPrefix(Unsigned(t))
    IN  IF ds = <<>> THEN {} ELSE {SignOf(t) * ToNat(ds)}

\* A decimal fraction num/den with den a power of ten, in lowest such terms.
RECURSIVE Reduce(_, _)
Reduce(num, den) ==
    IF den > 1 /\ num % 10 = 0 THEN Reduce(num \div 10, den \div 10)
    ELSE [num |-> num, den |-> den]

\* parseFloat(text) for decimal literals without an exponent: {} is NaN.
ParseFloat(s) ==
    LET t    == TrimLeft(s)
        u    == Unsigned(t)
        ip   == DigitsPrefix(u)
        rest == SubSeq(u, Len(ip) + 1, Len(u))
        fp   == IF rest # <<>> /\ Head(rest) = "."
                THEN DigitsPrefix(Tail(rest)) ELSE <<>>
    IN  IF ip = <<>> /\ fp = <<>> THEN {}
        ELSE {Reduce(SignOf(t) * (ToNat(ip) * Pow10(Len(fp)) + ToNat(fp)),
                     Pow10(Len(fp)))}

Only(f) == CHOOSE x \in f : TRUE

\* JavaScript truthiness of a cell: undefined and '' are falsy.
Truthy(f) == f # {} /\ f # {<<>>}

Zero == [num |-> 0, den |-> 1]

\* parseInt(cell) || 0
IntOrZero(f) ==
    LET p == IF f = {} THEN {} ELSE ParseInt(Only(f))
    IN  IF p = {} THEN 0 ELSE Only(p)

\* parseFloat(cell) || 0
FloatOrZero(f) ==
    LET p == IF f = {} THEN {} ELSE ParseFloat(Only(f))
    IN  IF p = {} \/ Only(p).num = 0 THEN Zero ELSE Only(p)

\* ---------------------------------------------------------- row normalizer
\* String(row.Entity || 'Desconhecido').trim()
EntityOf(row) ==
    Trim(IF Truthy(row.Entity) THEN Only(row.Entity) ELSE Sentinel)

\* The object built for one parsed row; columnMap is {Coverage: 'coverage'}.
NormalizeRow(row) ==
    [Entity   |-> EntityOf(row),
     Year     |-> IntOrZero(row.Year),
     coverage |-> FloatOrZero(row.Coverage)]

KeepNoYearCheck(rec) == rec.Entity # Sentinel

\* The filter applied to the normalized rows.
Keep(rec) ==
    /\ rec.Entity # Sentinel
    /\ rec.Year >= minYear
    /\ rec.Year <= maxYear

MapRows(rows) == [i \in DOMAIN rows |-> NormalizeRow(rows[i])]

\* results.data.map(...).filter(...)
ProcessRows(rows) == SelectSeq(MapRows(rows), Keep)

\* ------------------------------------------------------------ range filter
InRange(rec, lo, hi) == rec.Year >= lo /\ rec.Year <= hi

RangeFilterNoSwap(rows, lo, hi) ==
    SelectSeq(rows, LAMBDA rec : InRange(rec, lo, hi))

\* applyFilters' year selection: the records of rows whose Year lies in the
\* inclusive range, in the order of rows; inverted bounds are swapped first.
RangeFilter(rows, lo, hi) ==
    LET a == IF lo > hi THEN hi ELSE lo
        b == IF lo > hi THEN lo ELSE hi
    IN  SelectSeq(rows, LAMBDA rec : InRange(rec, a, b))

\* --------------------------------------------------------- served resources
Row(e, y, c) == [Entity |-> {e}, Year |-> {y}, Coverage |-> {c}]

\* A row of a body that has none of the expected columns.
NoColumnsRow == [Entity |-> {}, Year |-> {}, Coverage |-> {}]

CsvExample ==
    << Row(<<" ","B","r","a","z","i","l"," ">>, <<"2","0","1","0">>,
           <<"4","2",".","5">>),
       Row(<<>>, <<"2","0","1","0">>, <<"4","2",".","5">>),
       Row(<<"C","h","i","l","e">>, <<"2","0","2","5">>, <<"7">>) >>

CsvDirty ==
    << Row(<<" "," ">>, <<"2","0","1","0">>, <<"x">>),
       Row(<<" ","D","e","s","c","o","n","h","e","c","i","d","o"," ">>,
           <<"2","0","1","1">>, <<"1">>),
       Row(<<"P","e","r","u">>, <<"a","b","c">>, <<".","5">>),
       Row(<<"F","i","j","i">>, <<" ","2","0","2","4","x">>,
           <<"-","3",".","1","0">>),
       Row(<<"C","u","b","a">>, <<"1","9","9","9">>, <<"0">>),
       [Entity |-> {}, Year |-> {<<"2","0","0","0">>}, Coverage |-> {}] >>

\* What Papa.parse makes of the bodies a server answers a CSV request with.
ServedCsv == {<<>>, CsvExample, CsvDirty}

\* What it makes of the body of a non-success answer (an error page).
ErrorBodies == {<<>>, <<NoColumnsRow>>}

Bodies(status) == IF status = "ok" THEN ServedCsv ELSE ErrorBodies

\* -------------------------------------------------------------------- init
NoTask == [pc |-> "idle", status |-> "none", outcome |-> "none"]
NoDescription == [of |-> "none", kind |-> "initial"]
NoCitation == [of |-> "none", kind |-> "initial"]

\* The page as delivered, before DOMContentLoaded.
Init ==
    /\ domReady = FALSE
    /\ data = [d \in Keys |-> <<>>]
    /\ filteredData = [d \in Keys |-> <<>>]
    /\ results = [d \in Keys |-> <<>>]
    /\ stored = [d \in Keys |-> FALSE]
    /\ loader = [d \in Keys |-> [html |-> "initial", display |-> "shown"]]
    /\ citation = [d \in Keys |-> NoCitation]
    /\ description = [d \in Keys |-> NoDescription]
    /\ applyDisabled = [d \in Keys |-> TRUE]
    /\ tasks = <<>>
    /\ dataTasks = [d \in Keys |-> NoTask]
    /\ minYearSlider = [d \in Keys |-> 0]
    /\ maxYearSlider = [d \in Keys |-> 0]
    /\ minYearDisplay = [d \in Keys |-> 0]
    /\ maxYearDisplay = [d \in Keys |-> 0]
    /\ applied = [d \in Keys |-> FALSE]

\* The page once every section has its empty dataset object and its sliders
\* at their defaults, no load started yet.
InitLoaded ==
    /\ domReady = TRUE
    /\ data = [d \in Keys |-> <<>>]
    /\ filteredData = [d \in Keys |-> <<>>]
    /\ results = [d \in Keys |-> <<>>]
    /\ stored = [d \in Keys |-> FALSE]
    /\ loader = [d \in Keys |-> [html |-> "initial", display |-> "shown"]]
    /\ citation = [d \in Keys |-> NoCitation]
    /\ description = [d \in Keys |-> NoDescription]
    /\ applyDisabled = [d \in Keys |-> TRUE]
    /\ tasks = <<>>
    /\ dataTasks = [d \in Keys |-> NoTask]
    /\ minYearSlider = [d \in Keys |-> SliderMin]
    /\ maxYearSlider = [d \in Keys |-> SliderMax]
    /\ minYearDisplay = [d \in Keys |-> SliderMin]
    /\ maxYearDisplay = [d \in Keys |-> SliderMax]
    /\ applied = [d \in Keys |-> FALSE]

sliderVars == <<minYearSlider, maxYearSlider, minYearDisplay, maxYearDisplay>>
filterVars == <<filteredData, applied>>

\* ------------------------------------------------- loadDataset (script.js)
Pending(t) == t \in DOMAIN tasks /\ tasks[t].pc # "done"

\* The call up to its first await: the loader text, then fetch(metadataPath).
\* The function tests nothing before it starts: it can be called for any key
\* at any time, also while an earlier call for the same key is suspended.
LoadDataset(d) ==
    /\ domReady
    /\ Len(tasks) < MaxLoads
    /\ loader' = [loader EXCEPT ![d].html = "loading"]
    /\ tasks' = Append(tasks, [key |-> d, pc |-> "fetchMeta",
                               meta |-> "pending", csv |-> "none",
                               outcome |-> "none"])
    /\ UNCHANGED <<domReady, data, results, stored, citation, description,
                   applyDisabled, dataTasks, sliderVars, filterVars>>

CatchEnablesApply(t, task) ==
    /\ loader' = [loader EXCEPT ![task.key].html = "error"]
    /\ applyDisabled' = [applyDisabled EXCEPT ![task.key] = FALSE]
    /\ tasks' = [tasks EXCEPT ![t] =
                    [task EXCEPT !.pc = "done", !.outcome = "error"]]
    /\ UNCHANGED <<domReady, data, results, stored, citation, description,
                   dataTasks, sliderVars, filterVars>>

\* The catch block: the error text goes into the loader, the call returns.
Catch(t, task) ==
    /\ loader' = [loader EXCEPT ![task.key].html = "error"]
    /\ tasks' = [tasks EXCEPT ![t] =
                    [task EXCEPT !.pc = "done", !.outcome = "error"]]
    /\ UNCHANGED <<domReady, data, results, stored, citation, description,
                   applyDisabled, dataTasks, sliderVars, filterVars>>

\* fetch(config.metadataPath) resolves, with whatever status.
MetaFetchResolve(t) ==
    /\ Pending(t) /\ tasks[t].pc = "fetchMeta"
    /\ tasks' = [tasks EXCEPT ![t].pc = "metaJson"]
    /\ UNCHANGED <<domReady, data, results, stored, loader, citation,
                   description, applyDisabled, dataTasks, sliderVars,
                   filterVars>>

\* fetch(config.metadataPath) rejects (network failure).
MetaFetchReject(t) ==
    /\ Pending(t) /\ tasks[t].pc = "fetchMeta"
    /\ Catch(t, [tasks[t] EXCEPT !.meta = "failed"])

\* metaResponse.json() resolves: the citation is written (the metadata's, or
\* the text naming the key), then fetch(config.csvPath) is issued.
MetaJsonResolve(t, hasCitation) ==
    /\ Pending(t) /\ tasks[t].pc = "metaJson"
    /\ citation' = [citation EXCEPT ![tasks[t].key] =
                       [of |-> tasks[t].key,
                        kind |-> IF hasCitation THEN "metadata" ELSE "Fonte"]]
    /\ tasks' = [tasks EXCEPT ![t].pc = "fetchCsv", ![t].meta = "ok"]
    /\ UNCHANGED <<domReady, data, results, stored, loader, description,
                   applyDisabled, dataTasks, sliderVars, filterVars>>

\* metaResponse.json() rejects (the body is not JSON).
MetaJsonReject(t) ==
    /\ Pending(t) /\ tasks[t].pc = "metaJson"
    /\ Catch(t, [tasks[t] EXCEPT !.meta = "failed"])

\* fetch(config.csvPath) resolves; the response's status is not looked at.
CsvFetchResolve(t, status) ==
    /\ Pending(t) /\ tasks[t].pc = "fetchCsv"
    /\ tasks' = [tasks EXCEPT ![t].pc = "csvText", ![t].csv = status]
    /\ UNCHANGED <<domReady, data, results, stored, loader, citation,
                   description, applyDisabled, dataTasks, sliderVars,
                   filterVars>>

\* fetch(config.csvPath) rejects (network failure).
CsvFetchReject(t) ==
    /\ Pending(t) /\ tasks[t].pc = "fetchCsv"
    /\ Catch(t, [tasks[t] EXCEPT !.csv = "failed"])

\* Papa.parse's complete callback and the return of the call.  For a string
\* input Papa.parse reports malformed lines in results.errors and still calls
\* complete, so the error callback is never taken.  initializeFilters (not in
\* the sources) fills the filter widgets, which are no part of this state.
Complete(t, rows) ==
    LET d == tasks[t].key IN
    /\ data' = [data EXCEPT ![d] = ProcessRows(rows)]
    /\ results' = [results EXCEPT ![d] = rows]
    /\ stored' = [stored EXCEPT ![d] = TRUE]
    /\ applyDisabled' = [applyDisabled EXCEPT ![d] = FALSE]
    /\ loader' = [loader EXCEPT ![d].display = "none"]
    /\ tasks' = [tasks EXCEPT ![t].pc = "done", ![t].outcome = "success"]
    /\ UNCHANGED <<domReady, citation, description, dataTasks, sliderVars,
                   filterVars>>

\* csvResponse.text() resolves and the text is parsed at once.
CsvTextResolve(t) ==
    /\ Pending(t) /\ tasks[t].pc = "csvText"
    /\ \E rows \in Bodies(tasks[t].csv) : Complete(t, rows)

\* csvResponse.text() rejects (the body cannot be read).
CsvTextReject(t) ==
    /\ Pending(t) /\ tasks[t].pc = "csvText"
    /\ Catch(t, [tasks[t] EXCEPT !.csv = "failed"])

\* ------------------------------------------------ apply button (part_001)
\* The click listener of an apply button; a disabled button gets no click.
ApplyClick(d) ==
    /\ domReady
    /\ ~applyDisabled[d]
    /\ filteredData' = [filteredData EXCEPT ![d] =
           RangeFilter(data[d], minYearSlider[d], maxYearSlider[d])]
    /\ applied' = [applied EXCEPT ![d] = TRUE]
    /\ UNCHANGED <<domReady, data, results, stored, loader, citation,
                   description, applyDisabled, tasks, dataTasks, sliderVars>>

TaskIds == 1..(MaxLoads + 1)

Next ==
    \/ \E d \in Keys : LoadDataset(d)
    \/ \E t \in TaskIds : MetaFetchResolve(t)
    \/ \E t \in TaskIds : MetaFetchReject(t)
    \/ \E t \in TaskIds, c \in BOOLEAN : MetaJsonResolve(t, c)
    \/ \E t \in TaskIds : MetaJsonReject(t)
    \/ \E t \in TaskIds, s \in {"ok", "http_error"} : CsvFetchResolve(t, s)
    \/ \E t \in TaskIds : CsvFetchReject(t)
    \/ \E t \in TaskIds : CsvTextResolve(t)
    \/ \E t \in TaskIds : CsvTextReject(t)
    \/ \E d \in Keys : ApplyClick(d)

Spec == InitLoaded /\ [][Next]_vars

\* -------------------------------------------- year sliders (part_001)
\* A range input keeps its value inside its min..max.
Clamp(v, lo, hi) == IF v < lo THEN lo ELSE IF v > hi THEN hi ELSE v

\* Positions a user can move a year slider to.
SliderYears == SliderMin..SliderMax

MinYearInputNoDrag(d, v) ==
    /\ domReady
    /\ minYearSlider' = [minYearSlider EXCEPT ![d] = v]
    /\ minYearDisplay' = [minYearDisplay EXCEPT ![d] = v]
    /\ UNCHANGED <<maxYearSlider, maxYearDisplay>>
    /\ UNCHANGED <<domReady, data, results, stored, loader, citation,
                   description, applyDisabled, tasks, dataTasks, filterVars>>

\* The input listener of the min-year slider, after the user moved it to v.
\* The max-year slider's own min and max come from the page's markup; they are
\* taken to be those the code gives the min-year slider.
MinYearInput(d, v) ==
    /\ domReady
    /\ minYearSlider' = [minYearSlider EXCEPT ![d] = v]
    /\ minYearDisplay' = [minYearDisplay EXCEPT ![d] = v]
    /\ IF v > maxYearSlider[d]
       THEN /\ maxYearSlider' = [maxYearSlider EXCEPT ![d] =
                                    Clamp(v, SliderMin, SliderMax)]
            /\ maxYearDisplay' = [maxYearDisplay EXCEPT ![d] = v]
       ELSE UNCHANGED <<maxYearSlider, maxYearDisplay>>
    /\ UNCHANGED <<domReady, data, results, stored, loader, citation,
                   description, applyDisabled, tasks, dataTasks, filterVars>>

\* The input listener of the max-year slider, after the user moved it to v.
MaxYearInput(d, v) ==
    /\ domReady
    /\ maxYearSlider' = [maxYearSlider EXCEPT ![d] = v]
    /\ maxYearDisplay' = [maxYearDisplay EXCEPT ![d] = v]
    /\ IF v < minYearSlider[d]
       THEN /\ minYearSlider' = [minYearSlider EXCEPT ![d] =
                                    Clamp(v, SliderMin, SliderMax)]
            /\ minYearDisplay' = [minYearDisplay EXCEPT ![d] = v]
       ELSE UNCHANGED <<minYearSlider, minYearDisplay>>
    /\ UNCHANGED <<domReady, data, results, stored, loader, citation,
                   description, applyDisabled, tasks, dataTasks, filterVars>>

\* ------------------------------------------- DOMContentLoaded (part_001)
\* For every section: the empty dataset object, initializeSliders, and
\* loadDatasetData up to its first await (loader text, fetch of the metadata).
DOMContentLoaded ==
    /\ ~domReady
    /\ domReady' = TRUE
    /\ data' = [d \in Keys |-> <<>>]
    /\ filteredData' = [d \in Keys |-> <<>>]
    /\ minYearSlider' = [d \in Keys |-> Clamp(2000, SliderMin, SliderMax)]
    /\ minYearDisplay' = [d \in Keys |-> 2000]
    /\ maxYearSlider' = [d \in Keys |-> Clamp(2024, SliderMin, SliderMax)]
    /\ maxYearDisplay' = [d \in Keys |-> 2024]
    /\ loader' = [d \in Keys |-> [loader[d] EXCEPT !.html = "loading"]]
    /\ dataTasks' = [d \in Keys |-> [NoTask EXCEPT !.pc = "fetchMeta"]]
    /\ UNCHANGED <<results, stored, citation, description, applyDisabled,
                   tasks, applied>>

\* ------------------------------------------ loadDatasetData (part_001)
\* The section whose description document.querySelector('.dataset-description')
\* returns: the first in document order.
FirstDescription == Sections[1]

\* The catch block of loadDatasetData.
DataCatch(d) ==
    /\ loader' = [loader EXCEPT ![d].html = "error"]
    /\ dataTasks' = [dataTasks EXCEPT ![d].pc = "done",
                                      ![d].outcome = "error"]
    /\ UNCHANGED <<domReady, data, results, stored, citation, description,
                   applyDisabled, tasks, sliderVars, filterVars>>

\* fetch(`${API_BASE}/metadata/${datasetKey}`) resolves.
DataFetchResolve(d, status) ==
    /\ dataTasks[d].pc = "fetchMeta"
    /\ dataTasks' = [dataTasks EXCEPT ![d].pc = "metaJson",
                                      ![d].status = status]
    /\ UNCHANGED <<domReady, data, results, stored, loader, citation,
                   description, applyDisabled, tasks, sliderVars, filterVars>>

\* The fetch rejects.
DataFetchReject(d) ==
    /\ dataTasks[d].pc = "fetchMeta"
    /\ DataCatch(d)

\* metadataRes.json() resolves: description and citation are written and the
\* call returns.
DataJsonResolve(d, hasSubtitle, hasCitation) ==
    /\ dataTasks[d].pc = "metaJson"
    /\ description' = [description EXCEPT ![FirstDescription] =
           [of |-> d, kind |-> IF hasSubtitle THEN "subtitle" ELSE "Descricao"]]
    /\ citation' = [citation EXCEPT ![d] =
           [of |-> d,
            kind |-> IF hasCitation THEN "metadata" ELSE "indisponivel"]]
    /\ dataTasks' = [dataTasks EXCEPT ![d].pc = "done"]
    /\ UNCHANGED <<domReady, data, results, stored, loader, applyDisabled,
                   tasks, sliderVars, filterVars>>

\* metadataRes.json() rejects.
DataJsonReject(d) ==
    /\ dataTasks[d].pc = "metaJson"
    /\ DataCatch(d)

NextApi ==
    \/ DOMContentLoaded
    \/ \E d \in Keys, s \in {"ok", "http_error"} : DataFetchResolve(d, s)
    \/ \E d \in Keys : DataFetchReject(d)
    \/ \E d \in Keys, sub \in BOOLEAN, cit \in BOOLEAN :
           DataJsonResolve(d, sub, cit)
    \/ \E d \in Keys : DataJsonReject(d)

\* The API variant of the page: set-up and the metadata loads.
SpecApi == Init /\ [][NextApi]_vars

NextSliders ==
    \/ DOMContentLoaded
    \/ \E d \in Keys, v \in SliderYears : MinYearInput(d, v)
    \/ \E d \in Keys, v \in SliderYears : MaxYearInput(d, v)

\* The page's set-up and the slider events.
SpecSliders == Init /\ [][NextSliders]_vars

\* ---------------------------------------------- the range filter alone
FilterYears == {2001, 2002, 2003}
FilterBounds == {2000, 2001, 2002, 2003, 2004}
FilterRecords ==
    {[Entity |-> e, Year |-> y, coverage |-> [num |-> 10, den |-> 1]] :
        e \in {<<"A">>, <<"B">>}, y \in FilterYears}
RecordLists == UNION {[1..n -> FilterRecords] : n \in 0..MaxRows}

\* A loaded first dataset with any records, and any pair of bounds.
InitFilter ==
    /\ domReady = TRUE
    /\ \E rows \in RecordLists :
           data = [d \in Keys |-> IF d = Sections[1] THEN rows ELSE <<>>]
    /\ filteredData = [d \in Keys |-> <<>>]
    /\ results = [d \in Keys |-> <<>>]
    /\ stored = [d \in Keys |-> TRUE]
    /\ loader = [d \in Keys |-> [html |-> "loading", display |-> "none"]]
    /\ citation = [d \in Keys |-> NoCitation]
    /\ description = [d \in Keys |-> NoDescription]
    /\ applyDisabled = [d \in Keys |-> FALSE]
    /\ tasks = <<>>
    /\ dataTasks = [d \in Keys |-> NoTask]
    /\ \E lo \in FilterBounds, hi \in FilterBounds :
          /\ minYearSlider = [d \in Keys |-> lo]
          /\ maxYearSlider = [d \in Keys |-> hi]
          /\ minYearDisplay = [d \in Keys |-> lo]
          /\ maxYearDisplay = [d \in Keys |-> hi]
    /\ applied = [d \in Keys |-> FALSE]

NextFilter == \E d \in Keys : ApplyClick(d)

SpecFilter == InitFilter /\ [][NextFilter]_vars

\* =================================================================== claims

\* C1: in every reachable state, every record held in a dataset's data has an
\* Entity other than the placeholder and a Year within minYear..maxYear.
DataHoldsOnlyValidRecords ==
    \A d \in Keys : \A i \in DOMAIN data[d] :
        /\ data[d][i].Entity # Sentinel
        /\ data[d][i].Year >= minYear
        /\ data[d][i].Year <= maxYear

\* A load stored some rows of a CSV and dropped others.
SomeRowsKeptSomeDropped ==
    \E d \in Keys :
        stored[d] /\ data[d] # <<>> /\ Len(data[d]) < Len(results[d])

\* C2: a parsed row whose Entity is empty or only white space normalizes to
\* the placeholder Entity and its record is not in data.
IsBlank(cell) == cell # {} /\ Trim(Only(cell)) = <<>>

BlankEntityRowsExcluded ==
    \A d \in Keys : \A i \in DOMAIN results[d] :
        IsBlank(results[d][i].Entity) =>
            /\ NormalizeRow(results[d][i]).Entity = Sentinel
            /\ \A j \in DOMAIN data[d] :
                   data[d][j] # NormalizeRow(results[d][i])

\* C3: a load whose metadata request failed still ends in success, with data
\* stored, the apply button enabled and the citation naming the dataset key.
MetadataFailureIsNotFatal ==
    \A t \in DOMAIN tasks :
        (tasks[t].pc = "done" /\ tasks[t].meta = "failed") =>
            /\ tasks[t].outcome = "success"
            /\ stored[tasks[t].key]
            /\ ~applyDisabled[tasks[t].key]
            /\ citation[tasks[t].key] = [of |-> tasks[t].key, kind |-> "Fonte"]

\* C4: a load whose CSV request failed, or was answered with a non-success
\* status, ends in error: it stores no data and does not enable the button.
CsvUnavailableEndsInError ==
    \A t \in DOMAIN tasks :
        (tasks[t].pc = "done" /\ tasks[t].csv \in {"failed", "http_error"}) =>
            tasks[t].outcome = "error"

\* C5: the apply button of a dataset is enabled, and its filter has run, only
\* if a load of that dataset has stored its records into data and ended in
\* success; loads that ended in error never enable it.
ApplyEnabledOnlyAfterStore ==
    \A d \in Keys :
        (~applyDisabled[d] \/ applied[d]) =>
            /\ stored[d]
            /\ \E t \in DOMAIN tasks :
                   tasks[t].key = d /\ tasks[t].outcome = "success"

\* One dataset's button is enabled while a load of another dataset has ended
\* in error and left that one's button disabled.
EnabledBesideFailedLoad ==
    /\ \E d \in Keys : ~applyDisabled[d] /\ stored[d]
    /\ \E t \in DOMAIN tasks :
           tasks[t].outcome = "error" /\ applyDisabled[tasks[t].key]

\* C6: whatever a dataset's load writes (description, citation) belongs to
\* that dataset: no section's text is written by another dataset's load.
LoadsWriteOwnStateOnly ==
    \A e \in Keys :
        /\ description[e].of \in {"none", e}
        /\ citation[e].of \in {"none", e}

\* C7: at most one load of a dataset is in flight at any time.
InFlight(d) == {t \in DOMAIN tasks : tasks[t].key = d /\ tasks[t].pc # "done"}

AtMostOneLoadInFlight ==
    \A d \in Keys : Cardinality(InFlight(d)) <= 1

\* C8: a load that has returned has left the loading indicator in success or
\* in error, never in the pending state (loadDatasetData's calls here).
IndicatorPending(d) ==
    loader[d].html = "loading" /\ loader[d].display = "shown"

ReturnedLoadLeftPending ==
    \A d \in Keys : dataTasks[d].pc = "done" => ~IndicatorPending(d)

\* C9: applied with minYear > maxYear and at least one record between the
\* two, the range filter yields the non-empty selection of the swapped range.
InvertedBoundsAreSwapped ==
    \A d \in Keys :
        ( /\ applied[d]
          /\ minYearSlider[d] > maxYearSlider[d]
          /\ \E i \in DOMAIN data[d] :
                 /\ data[d][i].Year >= maxYearSlider[d]
                 /\ data[d][i].Year <= minYearSlider[d] ) =>
            /\ filteredData[d] # <<>>
            /\ filteredData[d] =
                   SelectSeq(data[d], LAMBDA r : /\ r.Year >= maxYearSlider[d]
                                                 /\ r.Year <= minYearSlider[d])

\* The filter ran on inverted bounds, kept some records and dropped others.
InvertedFilterKeptSome ==
    \E d \in Keys :
        /\ applied[d]
        /\ minYearSlider[d] > maxYearSlider[d]
        /\ filteredData[d] # <<>>
        /\ Len(filteredData[d]) < Len(data[d])

\* C10: once the sliders are initialized, after any input events the min-year
\* value is at most the max-year value and each display shows its slider.
SlidersOrderedAndDisplayed ==
    domReady =>
        \A d \in Keys :
            /\ minYearSlider[d] <= maxYearSlider[d]
            /\ minYearDisplay[d] = minYearSlider[d]
            /\ maxYearDisplay[d] = maxYearSlider[d]

\* Both sliders of a dataset stand on one year strictly inside the range,
\* away from both defaults.
SlidersMeetInside ==
    /\ domReady
    /\ \E d \in Keys :
           /\ minYearSlider[d] = maxYearSlider[d]
           /\ minYearSlider[d] > SliderMin
           /\ maxYearSlider[d] < SliderMax

====
